---- MODULE Spec2Model ----
(***************************************************************************)
(* A model of src/project.py: the scale-free network generator             *)
(* (generate_new_graph) and the rumor-spreading round loop (run_rumors).   *)
(*                                                                         *)
(* Four specifications share the variables:                                *)
(*   SpecGen      generate_new_graph: seed rejection loop, growth, eta.    *)
(*   SpecGenFair  SpecGen under fair seed draws.                           *)
(*   Spec         run_rumors on a graph generate_new_graph can return.     *)
(*   SpecCfg      both functions called with parameters out of range.      *)
(*                                                                         *)
(* Rumors are 5-character strings over '0','1' in the code; here they are  *)
(* 5-tuples over {0,1}, position 1 being the leftmost character.           *)
(* Floats that are quotients of integers (eta, the averages) are kept as   *)
(* pairs <<numerator, denominator>> and compared by cross-multiplication.  *)
(* Entropies are kept in thousandths of a bit.                             *)
(***************************************************************************)
EXTENDS Integers, Sequences, FiniteSets, TLC

\* ---------------------------------------------------------------- bounds
MaxSeed == 3        \* largest m0 explored by SpecGen
MaxT == 2           \* largest number of growth steps T
MaxNodes == 5       \* largest graph generated, m0 + T
MaxRounds == 2      \* largest num_rounds
MaxL == 3           \* largest memory capacity L
MaxSpecial == 1     \* largest liarnum and truthnum
MaxMutations == 1   \* most mutation draws that come out True in one run

\* ------------------------------------------------------ program constants
NBITS == 5          \* rumors are 5-bit strings
NCODES == 32        \* 2^5 possible rumors

\* ------------------------------------------------------------- rationals
Rat(a, b) == <<a, b>>
RatLeq(p, q) == p[1] * q[2] <= q[1] * p[2]
RatEq(p, q) == p[1] * q[2] = q[1] * p[2]
RatDiv(p, q) == <<p[1] * q[2], p[2] * q[1]>>
RatMax(S) == CHOOSE x \in S : \A y \in S : RatLeq(y, x)
RatZero == <<0, 1>>
RatOne == <<1, 1>>

\* ------------------------------------------------------------ the graph
\* edges is an n x n 0/1 matrix, rows and columns 0 .. n-1.
Size(e) == Cardinality(DOMAIN e)
NodesOf(e) == DOMAIN e
\* sum(edges[i,:])
RECURSIVE SumUpTo(_, _)
SumUpTo(row, k) == IF k < 0 THEN 0 ELSE row[k] + SumUpTo(row, k - 1)
RowSum(e, i) == SumUpTo(e[i], Size(e) - 1)
\* np.flatnonzero(edges[i,:])
Flatnonzero(e, i) == {k \in NodesOf(e) : e[i][k] # 0}

\* The thresholded symmetric random matrix of lines 120-123: every entry,
\* the diagonal included, is 0 or 1, and the matrix is symmetric.
SymmetricDraws(n) ==
    LET upper == {p \in (0 .. n - 1) \X (0 .. n - 1) : p[1] <= p[2]}
    IN {[a \in 0 .. n - 1 |->
           [b \in 0 .. n - 1 |-> IF a <= b THEN u[<<a, b>>] ELSE u[<<b, a>>]]] :
        u \in [upper -> {0, 1}]}
\* edges[i,i] = 0 for every i (line 126)
ZeroDiag(r) == [a \in DOMAIN r |-> [b \in DOMAIN r |-> IF a = b THEN 0 ELSE r[a][b]]]
\* faulty variant: the seed check is missing
HasIsolated_NoCheck(e) == FALSE
\* faulty variant: every draw is taken to have an isolated node
HasIsolated_Always(e) == TRUE
\* the seed check of lines 127-130: some row sums to 0
HasIsolated(e) == \E a \in NodesOf(e) : RowSum(e, a) = 0

\* np.random.choice(range(n), m, replace=False, p=prob/sum(prob)): m distinct
\* nodes, each of positive probability (positive degree).
AttachChoices(e, k) ==
    {S \in SUBSET {a \in NodesOf(e) : RowSum(e, a) > 0} : Cardinality(S) = k}
\* faulty variant: the new node's row is left at zero
AppendNode_ColumnOnly(e, new_edges) ==
    LET n == Size(e)
    IN [a \in 0 .. n |->
          [b \in 0 .. n |->
             IF a < n /\ b < n THEN e[a][b]
             ELSE IF a = n THEN 0
             ELSE (IF a \in new_edges THEN 1 ELSE 0)]]
\* lines 136-140: a new last column and a new last row, 1 at new_edges
AppendNode(e, new_edges) ==
    LET n == Size(e)
    IN [a \in 0 .. n |->
          [b \in 0 .. n |->
             IF a < n /\ b < n THEN e[a][b]
             ELSE IF a = n /\ b = n THEN 0
             ELSE IF a = n THEN (IF b \in new_edges THEN 1 ELSE 0)
             ELSE (IF a \in new_edges THEN 1 ELSE 0)]]

\* ------------------------------------------------------------------ eta
RECURSIVE IntPow(_, _)
IntPow(d, b) == IF b = 0 THEN 1 ELSE d * IntPow(d, b - 1)
\* sum(edges[j,:])**beta for an integer beta of either sign
PowRat(d, b) == IF b >= 0 THEN Rat(IntPow(d, b), 1) ELSE Rat(1, IntPow(d, -b))
\* the right-hand side of line 147
EtaEntry(e, b, i, j) ==
    RatDiv(PowRat(RowSum(e, j), b),
           RatMax({PowRat(RowSum(e, k), b) : k \in Flatnonzero(e, i)}))
\* lines 144-148: for i, for j >= i: eta[i,j] = ...; eta[j,i] = eta[i,j].
\* Entry (i,j) with i <= j is written once, in iteration (i,j), with the value
\* EtaEntry(e, b, i, j); entry (j,i) with j > i is written in the same
\* iteration and never again. pw[k] is sum(edges[k,:])**beta and mx[i] the
\* max of line 147 for row i.
EtaMatrix(e, b) ==
    LET pw == [k \in NodesOf(e) |-> PowRat(RowSum(e, k), b)]
        mx == [i \in NodesOf(e) |-> RatMax({pw[k] : k \in Flatnonzero(e, i)})]
    IN [i \in NodesOf(e) |->
          [j \in NodesOf(e) |->
             IF i <= j THEN RatDiv(pw[j], mx[i]) ELSE RatDiv(pw[i], mx[j])]]

\* ---------------------------------------------------------------- rumors
ZEROS == <<0, 0, 0, 0, 0>>
ONES == <<1, 1, 1, 1, 1>>
\* format(a,'05b'): the 5 binary digits of a, most significant first
Format05b(a) == <<(a \div 16) % 2, (a \div 8) % 2, (a \div 4) % 2, (a \div 2) % 2, a % 2>>
\* line 243: rumor[0:bitflip] + str(1-int(rumor[bitflip])) + rumor[bitflip+1:]
FlipBit(r, bitflip) == [r EXCEPT ![bitflip + 1] = 1 - @]

\* ------------------------------------------- collections.Counter, lists
RECURSIVE SumOver(_, _)
SumOver(f, S) ==
    IF S = {} THEN 0
    ELSE LET x == CHOOSE y \in S : TRUE IN f[x] + SumOver(f, S \ {x})
\* sum(count.values())
Totrum(c) == SumOver(c, DOMAIN c)
\* count[k], 0 for a missing key
CGet(c, k) == IF k \in DOMAIN c THEN c[k] ELSE 0
\* count[k] += 1
CInc(c, k) == IF k \in DOMAIN c THEN [c EXCEPT ![k] = @ + 1] ELSE c @@ (k :> 1)
\* faulty variant: a key whose count reaches 0 is kept
CDec_KeepsKey(c, k) == [c EXCEPT ![k] = @ - 1]
\* count[k] -= 1; if count[k] == 0: del count[k]
CDec(c, k) ==
    IF c[k] = 1 THEN [x \in DOMAIN c \ {k} |-> c[x]] ELSE [c EXCEPT ![k] = @ - 1]
\* get_mc: the keys of largest count; np.random.choice returns any of them
MostCommon(c) == {k \in DOMAIN c : \A k2 \in DOMAIN c : c[k2] <= c[k]}
\* line 237: a key drawn with probability count/total, so any key of count > 0
WeightedChoices(c) == {k \in DOMAIN c : c[k] > 0}
\* faulty variant: the mode is ignored, the draw is always the weighted one
SelectRumor_Weighted(c, majority) == WeightedChoices(c)
\* lines 231-237, the rumor a node selects
SelectRumor(c, majority) == IF majority THEN MostCommon(c) ELSE WeightedChoices(c)

\* np.log2 of a small integer, in thousandths
Log2Milli(x) == <<0, 1000, 1585, 2000, 2322, 2585, 2807, 3000>>[x]
\* line 238: sum(-val/totrum * log2(val/totrum)), in thousandths of a bit
RECURSIVE EntropyNum(_, _, _)
EntropyNum(c, S, tot) ==
    IF S = {} THEN 0
    ELSE LET k == CHOOSE y \in S : TRUE
         IN c[k] * (Log2Milli(tot) - Log2Milli(c[k])) + EntropyNum(c, S \ {k}, tot)
Entropy(c) == EntropyNum(c, DOMAIN c, Totrum(c)) \div Totrum(c)

\* lines 248-251: the first entry equal to rumor becomes new_rumor
FirstIndex(l, r) == CHOOSE k \in 1 .. Len(l) : l[k] = r /\ \A k2 \in 1 .. k - 1 : l[k2] # r
\* faulty variant: the newest instance is the one relabelled
RelabelFirst_Newest(l, r, nr) ==
    [l EXCEPT ![CHOOSE k \in 1 .. Len(l) : l[k] = r /\ \A k2 \in k + 1 .. Len(l) : l[k2] # r] = nr]
RelabelFirst(l, r, nr) == [l EXCEPT ![FirstIndex(l, r)] = nr]
\* faulty variant: the selected instance is dropped, the new code not stored
MutateHeld_Forgets(d, l, r, nr) ==
    [d |-> CDec(d, r),
     l |-> SubSeq(l, 1, FirstIndex(l, r) - 1) \o SubSeq(l, FirstIndex(l, r) + 1, Len(l))]
\* lines 244-251 on one node's (Counter, list)
MutateHeld(d, l, r, nr) ==
    [d |-> CDec(CInc(d, nr), r), l |-> RelabelFirst(l, r, nr)]

\* faulty variant: the evicted entry's count is not decremented
InsertOne_KeepsCount(d, l, up, cap) ==
    LET d1 == CInc(d, up)
        l1 == Append(l, up)
    IN IF Len(l1) > cap THEN [d |-> d1, l |-> Tail(l1)] ELSE [d |-> d1, l |-> l1]
\* faulty variant: on overflow the entry just appended is the one removed
InsertOne_DropsNewest(d, l, up, cap) ==
    LET d1 == CInc(d, up)
        l1 == Append(l, up)
    IN IF Len(l1) > cap THEN [d |-> CDec(d1, up), l |-> l] ELSE [d |-> d1, l |-> l1]
\* lines 263-269: one insertion into one node's (Counter, list) of capacity cap
InsertOne(d, l, up, cap) ==
    LET d1 == CInc(d, up)
        l1 == Append(l, up)
    IN IF Len(l1) > cap
       THEN [d |-> CDec(d1, Head(l1)), l |-> Tail(l1)]
       ELSE [d |-> d1, l |-> l1]
\* line 262: the insertions of one update_list, in list order
RECURSIVE InsertAll(_, _, _, _)
InsertAll(d, l, ups, cap) ==
    IF ups = <<>> THEN [d |-> d, l |-> l]
    ELSE LET one == InsertOne(d, l, Head(ups), cap)
         IN InsertAll(one.d, one.l, Tail(ups), cap)

\* faulty variant: both outcomes whatever the probability
AcceptOutcomes_Any(p) == BOOLEAN
\* line 257: np.random.choice([True,False], p=[eta, 1-eta]); an outcome of
\* probability 0 is never drawn
AcceptOutcomes(p) ==
    IF RatEq(p, RatOne) THEN {TRUE} ELSE IF p[1] = 0 THEN {FALSE} ELSE BOOLEAN
\* faulty variant: liars and truth-tellers accept like anyone else
AcceptSets_NoRoles(e, et, special, b) ==
    {A \in SUBSET Flatnonzero(e, b) :
        \A j \in Flatnonzero(e, b) : (j \in A) \in AcceptOutcomes(et[j][b])}
\* lines 253-259: the sets of neighbours that may accept broadcaster b's rumor;
\* receiver j accepts with probability eta[j,b], a liar or truth-teller never
AcceptSets(e, et, special, b) ==
    LET cand == Flatnonzero(e, b) \ special
    IN {A \in SUBSET cand : \A j \in cand : (j \in A) \in AcceptOutcomes(et[j][b])}
\* faulty variant: an accepted rumor is inserted at once
Offers_Applied(md, ml, upd, A, r, cap) ==
    [d |-> [j \in DOMAIN md |-> IF j \in A THEN InsertOne(md[j], ml[j], r, cap).d ELSE md[j]],
     l |-> [j \in DOMAIN ml |-> IF j \in A THEN InsertOne(md[j], ml[j], r, cap).l ELSE ml[j]],
     u |-> upd]
\* faulty variant: the rumor is queued at the front of the update list
Offers_AtFront(md, ml, upd, A, r, cap) ==
    [d |-> md, l |-> ml,
     u |-> [j \in DOMAIN upd |-> IF j \in A THEN <<r>> \o upd[j] ELSE upd[j]]]
\* lines 258-259: the rumor is queued, the memories are left alone
Offers(md, ml, upd, A, r, cap) ==
    [d |-> md, l |-> ml,
     u |-> [j \in DOMAIN upd |-> IF j \in A THEN Append(upd[j], r) ELSE upd[j]]]

\* lines 271-274, over the list H of all nodes
RECURSIVE SumH(_, _)
SumH(h, S) == IF S = {} THEN 0 ELSE LET x == CHOOSE y \in S : TRUE IN h[x] + SumH(h, S \ {x})
\* faulty variant: the average divides by the number of non-zero slots
AvgOf_Nonzero(h) == Rat(SumH(h, DOMAIN h), Cardinality({k \in DOMAIN h : h[k] # 0}))
AvgOf(h) == Rat(SumH(h, DOMAIN h), Cardinality(DOMAIN h))
MaxOf(h) == CHOOSE x \in {h[k] : k \in DOMAIN h} : \A k \in DOMAIN h : h[k] <= x
MinOf(h) == CHOOSE x \in {h[k] : k \in DOMAIN h} : \A k \in DOMAIN h : x <= h[k]
RECURSIVE SqDev(_, _, _, _)
SqDev(h, S, s, n) ==
    IF S = {} THEN 0
    ELSE LET x == CHOOSE y \in S : TRUE
         IN (n * h[x] - s) * (n * h[x] - s) + SqDev(h, S \ {x}, s, n)
VarOf(h) ==
    LET n == Cardinality(DOMAIN h)
    IN Rat(SqDev(h, DOMAIN h, SumH(h, DOMAIN h), n), n * n * n)

\* line 276: the nodes whose Counter has a key
Opinionated(md) == {j \in DOMAIN md : DOMAIN md[j] # {}}
\* line 276: one get_mc draw per opinionated node
OpinionDraws(md) ==
    {f \in [Opinionated(md) -> UNION {MostCommon(md[j]) : j \in Opinionated(md)}] :
        \A j \in Opinionated(md) : f[j] \in MostCommon(md[j])}
\* line 276: collections.Counter of the drawn opinions
CounterOf(f) ==
    [c \in {f[j] : j \in DOMAIN f} |-> Cardinality({j \in DOMAIN f : f[j] = c})]
\* faulty variant: the last code is left out
FragKeys_Short == 0 .. NCODES - 2
\* line 277: range(32), the codes whose fraction is written
FragKeys == 0 .. NCODES - 1
\* line 277: the list [(a, format(a,'05b')) for a in range(32)]
BinStrs == [a \in FragKeys |-> Format05b(a)]
\* line 278: current_opinions[binstr] / edges.shape[0], ops the round's Counter
FragEntry(ops, a, n) == Rat(CGet(ops, BinStrs[a]), n)

\* The graphs generate_new_graph returns for seed size n0, attach count k
\* and steps growth steps.
SeedGraphs(n0) == {e \in {ZeroDiag(r) : r \in SymmetricDraws(n0)} : ~HasIsolated(e)}
RECURSIVE Grown(_, _, _)
Grown(S, k, steps) ==
    IF steps = 0 THEN S
    ELSE Grown(UNION {{AppendNode(e, ne) : ne \in AttachChoices(e, k)} : e \in S}, k, steps - 1)

VARIABLES
    pc,           \* where the program is
    edges, eta,   \* the adjacency matrix and the trust matrix
    beta, m0, m, T, t,   \* generate_new_graph's parameters and growth counter
    init_person, liarnum, truthnum, liars, truths, L, mcr, num_rounds,   \* run_rumors' parameters and roles
    mem_dict, mem_list, updates, H, rumor,
    itnum, node_i,        \* the round and the node of the loop of line 228
    avgH, varH, maxH, minH,
    current_opinions,   \* line 276, one Counter per finished round; opinion_frag is OpinionFrag
    start_list,   \* history: mem_list as it was when the round began
    total_in,     \* history: codes ever inserted into each node, seeding included
    mutations     \* history: how many mutation draws came out True so far

genVars == <<edges, eta, beta, m0, m, T, t>>
cfgVars == <<init_person, liarnum, truthnum, liars, truths, L, mcr, num_rounds>>
memVars == <<mem_dict, mem_list, updates, H, rumor>>
statVars == <<avgH, varH, maxH, minH, current_opinions>>
runVars == <<cfgVars, memVars, itnum, node_i, statVars, start_list, total_in, mutations>>
vars == <<pc, genVars, runVars>>

\* the integer values of beta explored
Betas == {-1, 0, 1, 2}

\* ------------------------------------------------- generate_new_graph
InitGen ==
    /\ pc = "seed"
    /\ edges = <<>>
    /\ eta = <<>>
    /\ beta \in Betas
    /\ m0 \in 2 .. MaxSeed
    /\ m \in 1 .. MaxSeed - 1
    /\ m < m0
    /\ T \in 0 .. MaxT
    /\ m0 + T <= MaxNodes
    /\ t = 0
    /\ init_person = 0 /\ liarnum = 0 /\ truthnum = 0 /\ liars = {} /\ truths = {} /\ L = 1
    /\ mcr = TRUE /\ num_rounds = 0
    /\ mem_dict = <<>> /\ mem_list = <<>> /\ updates = <<>> /\ H = <<>>
    /\ rumor = <<>> /\ itnum = 0 /\ node_i = 0
    /\ avgH = <<>> /\ varH = <<>> /\ maxH = <<>> /\ minH = <<>>
    /\ current_opinions = <<>> /\ start_list = <<>> /\ total_in = <<>> /\ mutations = 0

\* One pass of the while loop of lines 118-130 that ends with repeat = True.
SeedRejected ==
    /\ pc = "seed"
    /\ \E r \in SymmetricDraws(m0) :
         /\ HasIsolated(ZeroDiag(r))
         /\ edges' = ZeroDiag(r)
    /\ pc' = "seed"
    /\ UNCHANGED <<eta, beta, m0, m, T, t, runVars>>

\* One pass of the while loop that ends with repeat = False.
SeedAccepted ==
    /\ pc = "seed"
    /\ \E r \in SymmetricDraws(m0) :
         /\ ~HasIsolated(ZeroDiag(r))
         /\ edges' = ZeroDiag(r)
    /\ pc' = "grow"
    /\ UNCHANGED <<eta, beta, m0, m, T, t, runVars>>

\* One iteration of the growth loop, lines 133-140.
Grow ==
    /\ pc = "grow"
    /\ t < T
    /\ \E new_edges \in AttachChoices(edges, m) :
         edges' = AppendNode(edges, new_edges)
    /\ t' = t + 1
    /\ UNCHANGED <<pc, eta, beta, m0, m, T, runVars>>

\* Lines 143-152: eta is computed and (eta, edges) returned.
ComputeEta ==
    /\ pc = "grow"
    /\ t = T
    /\ eta' = EtaMatrix(edges, beta)
    /\ pc' = "returned"
    /\ UNCHANGED <<edges, beta, m0, m, T, t, runVars>>

NextGen == SeedRejected \/ SeedAccepted \/ Grow \/ ComputeEta

SpecGen == InitGen /\ [][NextGen]_vars

\* generate_new_graph under fair draws: np.random.rand gives every wiring of
\* the seed graph positive probability in every pass of the loop of line 118,
\* so a pass that ends with repeat = False is not put off forever; the for
\* loops that follow always advance.
SpecGenFair ==
    /\ InitGen /\ [][NextGen]_vars
    /\ WF_vars(SeedAccepted) /\ WF_vars(Grow) /\ WF_vars(ComputeEta)


\* ----------------------------------------------------------- run_rumors
Nodes == NodesOf(edges)
Special == liars \cup truths
\* lines 180-216: the state when the round loop is entered
SeededDict(j, init, li, tr) ==
    IF j \in li THEN (ONES :> 1)
    ELSE IF j \in tr \/ j = init THEN (ZEROS :> 1)
    ELSE <<>>
SeededList(j, init, li, tr) ==
    IF j \in li THEN <<ONES>>
    ELSE IF j \in tr \/ j = init THEN <<ZEROS>>
    ELSE <<>>
\* np.random.choice(pool, size=k, replace=False), as a set
RoleChoices(pool, k) == {S \in SUBSET pool : Cardinality(S) = k}

InitRun ==
    /\ pc = "broadcast"
    /\ m0 = 2 /\ m = 1
    /\ T \in 0 .. MaxT
    /\ t = T
    /\ edges \in Grown(SeedGraphs(m0), m, T)
    /\ beta = 1
    /\ eta = EtaMatrix(edges, beta)
    /\ init_person \in NodesOf(edges)
    /\ liarnum \in 0 .. MaxSpecial
    /\ truthnum = liarnum
    /\ liars \in RoleChoices(NodesOf(edges) \ {init_person}, liarnum)
    /\ truths \in RoleChoices(NodesOf(edges) \ (liars \cup {init_person}), truthnum)
    /\ L \in 1 .. MaxL
    /\ mcr \in BOOLEAN
    /\ num_rounds \in 1 .. MaxRounds
    /\ mem_dict = [j \in NodesOf(edges) |-> SeededDict(j, init_person, liars, truths)]
    /\ mem_list = [j \in NodesOf(edges) |-> SeededList(j, init_person, liars, truths)]
    /\ H = [j \in NodesOf(edges) |-> 0]
    /\ updates = [j \in NodesOf(edges) |-> <<>>]
    /\ rumor = <<>>
    /\ itnum = 0
    /\ node_i = 0
    /\ avgH = <<>> /\ varH = <<>> /\ maxH = <<>> /\ minH = <<>>
    /\ current_opinions = <<>>
    /\ start_list = mem_list
    /\ total_in = [j \in NodesOf(edges) |-> Len(mem_list[j])]
    /\ mutations = 0

InLoop == pc = "broadcast" /\ node_i < Size(edges)

\* Line 230 false: node i holds nothing and the body is skipped.
SkipEmpty ==
    /\ InLoop
    /\ Totrum(mem_dict[node_i]) = 0
    /\ node_i' = node_i + 1
    /\ UNCHANGED <<pc, genVars, cfgVars, memVars, itnum, statVars, start_list, total_in, mutations>>

\* Lines 231-232 and 253-259: a liar or truth-teller tells its code.
BroadcastFixed ==
    /\ InLoop
    /\ Totrum(mem_dict[node_i]) # 0
    /\ node_i \in Special
    /\ \E r \in MostCommon(mem_dict[node_i]), A \in AcceptSets(edges, eta, Special, node_i) :
         LET o == Offers(mem_dict, mem_list, updates, A, r, L)
         IN /\ rumor' = r
            /\ mem_dict' = o.d /\ mem_list' = o.l /\ updates' = o.u
    /\ node_i' = node_i + 1
    /\ UNCHANGED <<pc, genVars, cfgVars, H, itnum, statVars, start_list, total_in, mutations>>

\* Lines 233-240 with mutate False, then 253-259.
BroadcastKeep ==
    /\ InLoop
    /\ Totrum(mem_dict[node_i]) # 0
    /\ node_i \notin Special
    /\ \E r \in SelectRumor(mem_dict[node_i], mcr), A \in AcceptSets(edges, eta, Special, node_i) :
         LET o == Offers(mem_dict, mem_list, updates, A, r, L)
         IN /\ rumor' = r
            /\ mem_dict' = o.d /\ mem_list' = o.l /\ updates' = o.u
    /\ H' = [H EXCEPT ![node_i] = Entropy(mem_dict[node_i])]
    /\ node_i' = node_i + 1
    /\ UNCHANGED <<pc, genVars, cfgVars, itnum, statVars, start_list, total_in, mutations>>

\* Lines 233-252 with mutate True, then 253-259.
BroadcastMutate ==
    /\ InLoop
    /\ Totrum(mem_dict[node_i]) # 0
    /\ node_i \notin Special
    /\ \E r \in SelectRumor(mem_dict[node_i], mcr), bitflip \in 0 .. NBITS - 1,
          A \in AcceptSets(edges, eta, Special, node_i) :
         LET new_rumor == FlipBit(r, bitflip)
             mh == MutateHeld(mem_dict[node_i], mem_list[node_i], r, new_rumor)
             o == Offers([mem_dict EXCEPT ![node_i] = mh.d],
                         [mem_list EXCEPT ![node_i] = mh.l], updates, A, new_rumor, L)
         IN /\ rumor' = new_rumor
            /\ mem_dict' = o.d /\ mem_list' = o.l /\ updates' = o.u
    /\ H' = [H EXCEPT ![node_i] = Entropy(mem_dict[node_i])]
    /\ node_i' = node_i + 1
    /\ mutations < MaxMutations
    /\ mutations' = mutations + 1
    /\ UNCHANGED <<pc, genVars, cfgVars, itnum, statVars, start_list, total_in>>

\* Lines 261-278, and line 219 of the next round when there is one.
EndRound ==
    /\ pc = "broadcast"
    /\ node_i = Size(edges)
    /\ LET ins == [j \in Nodes |-> InsertAll(mem_dict[j], mem_list[j], updates[j], L)]
           nd == [j \in Nodes |-> ins[j].d]
           nl == [j \in Nodes |-> ins[j].l]
       IN /\ mem_dict' = nd
          /\ mem_list' = nl
          /\ start_list' = nl
          /\ total_in' = [j \in Nodes |-> total_in[j] + Len(updates[j])]
          /\ \E f \in OpinionDraws(nd) :
               current_opinions' = Append(current_opinions, CounterOf(f))
    /\ avgH' = Append(avgH, AvgOf(H))
    /\ varH' = Append(varH, VarOf(H))
    /\ maxH' = Append(maxH, MaxOf(H))
    /\ minH' = Append(minH, MinOf(H))
    /\ itnum' = itnum + 1
    /\ IF itnum + 1 < num_rounds
       THEN /\ pc' = "broadcast"
            /\ node_i' = 0
            /\ updates' = [j \in Nodes |-> <<>>]
       ELSE /\ pc' = "done"
            /\ UNCHANGED <<node_i, updates>>
    /\ UNCHANGED <<genVars, cfgVars, H, rumor, mutations>>

\* lines 212 and 277-278: opinion_frag[a, r], zero until round r has finished
OpinionFrag(a, r) ==
    IF a \in DOMAIN BinStrs /\ r + 1 <= Len(current_opinions)
    THEN FragEntry(current_opinions[r + 1], a, Size(edges))
    ELSE RatZero

Next == SkipEmpty \/ BroadcastFixed \/ BroadcastKeep \/ BroadcastMutate \/ EndRound

Spec == InitRun /\ [][Next]_vars

\* ------------------------------- calls with parameters out of their range
\* generate_new_graph called with m >= m0 (lines 99-152).
InitCfgGen ==
    /\ pc = "seed"
    /\ edges = <<>>
    /\ eta = <<>>
    /\ beta \in Betas
    /\ m0 \in 2 .. MaxSeed
    /\ m \in 2 .. MaxSeed + 1
    /\ m >= m0
    /\ T \in 0 .. MaxT
    /\ t = 0
    /\ init_person = 0 /\ liarnum = 0 /\ truthnum = 0 /\ liars = {} /\ truths = {} /\ L = 1
    /\ mcr = TRUE /\ num_rounds = 0
    /\ mem_dict = <<>> /\ mem_list = <<>> /\ updates = <<>> /\ H = <<>>
    /\ rumor = <<>> /\ itnum = 0 /\ node_i = 0
    /\ avgH = <<>> /\ varH = <<>> /\ maxH = <<>> /\ minH = <<>>
    /\ current_opinions = <<>> /\ start_list = <<>> /\ total_in = <<>> /\ mutations = 0

\* Line 135 raises ValueError: np.random.choice cannot take m distinct nodes
\* out of fewer than m nodes of positive probability.
GrowRaises ==
    /\ pc = "grow"
    /\ t < T
    /\ AttachChoices(edges, m) = {}
    /\ pc' = "grow_error"
    /\ UNCHANGED <<genVars, runVars>>

\* run_rumors entered (lines 180-181 done) with L < 1 or with
\* liarnum + truthnum + 1 above the number of nodes.
InitCfgRun ==
    /\ pc = "setup"
    /\ m0 = 2 /\ m = 1
    /\ T \in 0 .. MaxT
    /\ t = T
    /\ edges \in Grown(SeedGraphs(m0), m, T)
    /\ beta = 1
    /\ eta = EtaMatrix(edges, beta)
    /\ init_person \in NodesOf(edges)
    /\ liarnum \in 0 .. MaxSpecial + 1
    /\ truthnum \in 0 .. MaxSpecial + 1
    /\ L \in -1 .. 1
    /\ L < 1 \/ liarnum + truthnum + 1 > Size(edges)
    /\ liars = {} /\ truths = {}
    /\ mcr \in BOOLEAN
    /\ num_rounds \in 1 .. MaxRounds
    /\ mem_dict = [j \in NodesOf(edges) |-> <<>>]
    /\ mem_list = [j \in NodesOf(edges) |-> <<>>]
    /\ H = <<>>
    /\ updates = <<>>
    /\ rumor = <<>>
    /\ itnum = 0
    /\ node_i = 0
    /\ avgH = <<>> /\ varH = <<>> /\ maxH = <<>> /\ minH = <<>>
    /\ current_opinions = <<>>
    /\ start_list = mem_list
    /\ total_in = [j \in NodesOf(edges) |-> 0]
    /\ mutations = 0

\* the pools of lines 188 and 196
LiarPool == NodesOf(edges) \ {init_person}
TruthPool == NodesOf(edges) \ (liars \cup {init_person})
\* lines 189-190, 197-198, 204-205: code c is put into each node of S
SeedInto(md, S, c) == [j \in DOMAIN md |-> IF j \in S THEN CInc(md[j], c) ELSE md[j]]
SeedIntoList(ml, S, c) == [j \in DOMAIN ml |-> IF j \in S THEN Append(ml[j], c) ELSE ml[j]]

\* Lines 188-193: the liars are drawn and seeded with 11111.
ChooseLiars ==
    /\ pc = "setup"
    /\ \E S \in RoleChoices(LiarPool, liarnum) :
         /\ liars' = S
         /\ mem_dict' = SeedInto(mem_dict, S, ONES)
         /\ mem_list' = SeedIntoList(mem_list, S, ONES)
    /\ pc' = "liars_seeded"
    /\ UNCHANGED <<genVars, init_person, liarnum, truthnum, truths, L, mcr, num_rounds,
                   updates, H, rumor, itnum, node_i, statVars, start_list, total_in, mutations>>

\* Line 188 raises ValueError: more liars asked for than the pool holds.
LiarsRaises ==
    /\ pc = "setup"
    /\ RoleChoices(LiarPool, liarnum) = {}
    /\ pc' = "setup_error"
    /\ UNCHANGED <<genVars, runVars>>

\* Lines 196-201: the truth-tellers are drawn and seeded with 00000.
ChooseTruths ==
    /\ pc = "liars_seeded"
    /\ \E S \in RoleChoices(TruthPool, truthnum) :
         /\ truths' = S
         /\ mem_dict' = SeedInto(mem_dict, S, ZEROS)
         /\ mem_list' = SeedIntoList(mem_list, S, ZEROS)
    /\ pc' = "truths_seeded"
    /\ UNCHANGED <<genVars, init_person, liarnum, truthnum, liars, L, mcr, num_rounds,
                   updates, H, rumor, itnum, node_i, statVars, start_list, total_in, mutations>>

\* Line 196 raises ValueError: more truth-tellers asked for than the pool holds.
TruthsRaises ==
    /\ pc = "liars_seeded"
    /\ RoleChoices(TruthPool, truthnum) = {}
    /\ pc' = "setup_error"
    /\ UNCHANGED <<genVars, runVars>>

\* Lines 204-219: the first rumor is seeded, the statistics are initialised
\* and the first round begins.
SeedFirstRumor ==
    /\ pc = "truths_seeded"
    /\ mem_dict' = SeedInto(mem_dict, {init_person}, ZEROS)
    /\ mem_list' = SeedIntoList(mem_list, {init_person}, ZEROS)
    /\ H' = [j \in Nodes |-> 0]
    /\ updates' = [j \in Nodes |-> <<>>]
    /\ start_list' = mem_list'
    /\ total_in' = [j \in Nodes |-> Len(mem_list'[j])]
    /\ pc' = IF num_rounds > 0 THEN "broadcast" ELSE "done"
    /\ UNCHANGED <<genVars, cfgVars, rumor, itnum, node_i, statVars, mutations>>

InitCfg == InitCfgGen \/ InitCfgRun

NextCfg ==
    \/ SeedRejected \/ SeedAccepted \/ Grow \/ GrowRaises \/ ComputeEta
    \/ ChooseLiars \/ LiarsRaises \/ ChooseTruths \/ TruthsRaises \/ SeedFirstRumor
    \/ SkipEmpty \/ BroadcastFixed \/ BroadcastKeep \/ BroadcastMutate \/ EndRound

SpecCfg == InitCfg /\ [][NextCfg]_vars

\* ================================================================ claims
\* collections.Counter(l): the multiset of a list
CounterOfList(l) ==
    [c \in {l[k] : k \in 1 .. Len(l)} |-> Cardinality({k \in 1 .. Len(l) : l[k] = c})]
Min2(a, b) == IF a <= b THEN a ELSE b
\* number of 1 bits of a rumor
Weight(r) == Cardinality({k \in 1 .. Len(r) : r[k] = 1})
\* the state in which round number r (1, 2, ...) has just finished
AfterRound(r) == itnum = r /\ (pc = "done" \/ (pc = "broadcast" /\ node_i = 0))
Running == pc \in {"broadcast", "done"}

\* C1: rounds are synchronous. While the nodes broadcast, every node not yet
\* processed holds exactly the memory it had when the round began, no memory
\* has grown (no rumor accepted in this round is inserted before the loop over
\* the nodes has ended), and a node whose memory was empty when the round began
\* queues nothing in its turn, whatever it was sent earlier in the round.
C1_Synchronous ==
    /\ [](pc = "broadcast" =>
            \A j \in Nodes :
               /\ Len(mem_list[j]) = Len(start_list[j])
               /\ j >= node_i =>
                    /\ mem_list[j] = start_list[j]
                    /\ mem_dict[j] = CounterOfList(start_list[j]))
    /\ [][(InLoop /\ start_list[node_i] = <<>>) =>
            (updates' = updates /\ mem_list' = mem_list /\ node_i' = node_i + 1)]_vars
\* C1 witness: a node that began the round empty has had its turn although a
\* lower-numbered neighbour had already queued a rumor for it.
C1_Witness ==
    /\ pc = "broadcast"
    /\ \E j \in Nodes :
         /\ start_list[j] = <<>>
         /\ j < node_i
         /\ updates[j] # <<>>
         /\ \E b \in Flatnonzero(edges, j) : b < j /\ start_list[b] # <<>>

\* C2: for every node, mem_dict is the multiset of mem_list, the counts sum to
\* the length of the list, the length is at most L, and it equals
\* min(codes ever inserted into the node, L).
C2_DictIsMultiset ==
    Running =>
      \A j \in Nodes :
         /\ mem_dict[j] = CounterOfList(mem_list[j])
         /\ Totrum(mem_dict[j]) = Len(mem_list[j])
         /\ Len(mem_list[j]) <= L
         /\ Len(mem_list[j]) = Min2(total_in[j], L)
\* C2 witness: a node that has both mutated a held rumor and lost an entry to
\* eviction, and holds two different codes.
C2_Witness ==
    /\ Running
    /\ mutations > 0
    /\ \E j \in Nodes :
         /\ total_in[j] > L
         /\ Cardinality(DOMAIN mem_dict[j]) >= 2
         /\ \E c \in DOMAIN mem_dict[j] : Weight(c) \in {1, 4}

\* C3: on every edge and in both directions eta[i][j] is
\* degree(j)^beta / max over i's neighbours k of degree(k)^beta.
C3_Directional ==
    pc = "returned" =>
      \A a \in NodesOf(edges) : \A b \in Flatnonzero(edges, a) :
         RatEq(eta[a][b], EtaEntry(edges, beta, a, b))

\* the end-to-end scenario of C4: no liars or truth-tellers, seed node 0,
\* every acceptance probability on an edge equal to 1
C4_Scenario ==
    /\ Running
    /\ liars = {} /\ truths = {}
    /\ init_person = 0
    /\ \A a \in Nodes : \A b \in Flatnonzero(edges, a) : RatEq(eta[a][b], RatOne)
\* C4 as claimed: after the first round every neighbour of node 0 holds exactly
\* 00000 with count 1, every other node but 0 is empty, and avgH is 0.
C4_Original ==
    (C4_Scenario /\ AfterRound(1)) =>
      /\ \A j \in Flatnonzero(edges, 0) :
           mem_list[j] = <<ZEROS>> /\ mem_dict[j] = (ZEROS :> 1)
      /\ \A j \in Nodes \ (Flatnonzero(edges, 0) \cup {0}) : mem_list[j] = <<>>
      /\ RatEq(avgH[1], RatZero)
\* C4 amended: after the first round every neighbour of node 0 holds exactly
\* one code with count 1, the code node 0 broadcast, which is 00000 when the
\* seed's mutation draw was false and otherwise differs from 00000 in exactly
\* one bit; node 0 holds that same code once; every other node is empty; avgH
\* is 0.
C4_OneRound ==
    (C4_Scenario /\ AfterRound(1)) =>
      /\ Weight(rumor) = (IF mutations = 0 THEN 0 ELSE 1)
      /\ mem_list[0] = <<rumor>>
      /\ \A j \in Flatnonzero(edges, 0) :
           mem_list[j] = <<rumor>> /\ mem_dict[j] = (rumor :> 1)
      /\ \A j \in Nodes \ (Flatnonzero(edges, 0) \cup {0}) :
           mem_list[j] = <<>> /\ mem_dict[j] = <<>>
      /\ avgH[1] = Rat(0, Size(edges))
\* C4 witness: the scenario on four nodes after round one, the seed having
\* mutated, with a node that is not a neighbour of node 0.
C4_Witness ==
    /\ C4_Scenario /\ AfterRound(1)
    /\ mutations = 1
    /\ Size(edges) = 4
    /\ Nodes \ (Flatnonzero(edges, 0) \cup {0}) # {}

\* the ordinary nodes that hold a rumor
OrdinaryHolding == {j \in Nodes \ Special : mem_list[j] # <<>>}
MinOver(h, S) == CHOOSE x \in {h[k] : k \in S} : \A k \in S : x <= h[k]
MaxOver(h, S) == CHOOSE x \in {h[k] : k \in S} : \A k \in S : h[k] <= x
Last(q) == q[Len(q)]

\* C5 as claimed: the aggregates a round appends are taken over the ordinary
\* nodes with non-empty memory only: the average divides by their number and
\* the maximum and minimum range over them.
C5_Original ==
    [][(pc = "broadcast" /\ node_i = Size(edges) /\ OrdinaryHolding # {}) =>
         /\ RatEq(Last(avgH'), Rat(SumH(H, OrdinaryHolding), Cardinality(OrdinaryHolding)))
         /\ Last(maxH') = MaxOver(H, OrdinaryHolding)
         /\ Last(minH') = MinOver(H, OrdinaryHolding)]_vars
\* C5 amended: the aggregates a round appends are taken over all N slots of H:
\* the average is sum(H)/N, the variance sum((N*H[j]-sum(H))^2)/N^3, and the
\* maximum and minimum range over every node; liars, truth-tellers and nodes
\* with empty memory are counted with their slot's value 0, so the minimum is 0
\* whenever such a node exists.
C5_AllSlots ==
    (itnum >= 1 /\ AfterRound(itnum)) =>
      LET n == Size(edges)
          s == SumH(H, Nodes)
          zeroSlots == Special \cup {j \in Nodes : mem_list[j] = <<>>}
      IN /\ Len(avgH) = itnum /\ Len(varH) = itnum
         /\ Len(maxH) = itnum /\ Len(minH) = itnum
         /\ Last(avgH) = <<s, n>>
         /\ Last(varH)[2] = n * n * n
         /\ Last(varH)[1] = SumH([j \in Nodes |-> (n * H[j] - s) * (n * H[j] - s)], Nodes)
         /\ Last(maxH) = MaxOver(H, Nodes)
         /\ Last(minH) = MinOver(H, Nodes)
         /\ \A j \in zeroSlots : H[j] = 0
         /\ zeroSlots # {} => Last(minH) = 0
\* C5 witness: a round has ended with an ordinary node of positive entropy, a
\* liar or truth-teller and an empty node; the minimum is 0, the maximum not.
C5_Witness ==
    /\ itnum >= 1 /\ AfterRound(itnum)
    /\ \E j \in OrdinaryHolding : H[j] > 0
    /\ Special # {}
    /\ \E k \in Nodes : mem_list[k] = <<>>
    /\ Last(minH) = 0 /\ Last(maxH) > 0
    /\ Last(avgH)[2] = Size(edges) /\ Last(avgH)[1] > 0

FixedCode(j) == IF j \in liars THEN ONES ELSE ZEROS
\* C6: a liar always holds exactly one 11111 and a truth-teller exactly one
\* 00000, so its majority is that code; its entropy slot is 0; nothing is ever
\* queued for it; and in its turn of every round it tells that code: every
\* ordinary neighbour whose trust in it is 1 gets the code queued, any other
\* neighbour gets it queued or not, and nothing else is queued.
C6_FixedPoints ==
    /\ [](Running =>
            \A s \in Special :
               /\ mem_list[s] = <<FixedCode(s)>>
               /\ mem_dict[s] = (FixedCode(s) :> 1)
               /\ MostCommon(mem_dict[s]) = {FixedCode(s)}
               /\ H[s] = 0
               /\ updates[s] = <<>>)
    /\ [][(InLoop /\ node_i \in Special) =>
            /\ rumor' = FixedCode(node_i)
            /\ node_i' = node_i + 1
            /\ \A j \in Nodes :
                 IF j \in Flatnonzero(edges, node_i) \ Special
                 THEN IF RatEq(eta[j][node_i], RatOne)
                      THEN updates'[j] = Append(updates[j], FixedCode(node_i))
                      ELSE updates'[j] \in {updates[j], Append(updates[j], FixedCode(node_i))}
                 ELSE updates'[j] = updates[j]]_vars
\* C6 witness: in the second round a liar has told 11111 to an ordinary
\* neighbour, and an ordinary neighbour that the liar trusts fully has
\* broadcast before, without anything being queued for the liar.
C6_Witness ==
    /\ pc = "broadcast" /\ itnum = 1
    /\ \E s \in liars :
         /\ s < node_i
         /\ \E j \in Flatnonzero(edges, s) \ Special :
              /\ updates[j] # <<>> /\ Last(updates[j]) = ONES
         /\ \E k \in Flatnonzero(edges, s) \ Special :
              /\ k < node_i /\ mem_list[k] # <<>>
              /\ RatEq(eta[s][k], RatOne)

\* the sum of the numerators of the 32 entries opinion_frag[:, r]
FragNumSum(r) ==
    LET nz == {a \in 0 .. NCODES - 1 : OpinionFrag(a, r)[1] # 0}
    IN SumH([a \in nz |-> OpinionFrag(a, r)[1]], nz)
\* C7: the 32 fractions of the round that finished last sum to (nodes with
\* non-empty memory) / (node count), every non-zero one having the node count
\* as its denominator; every round's fractions sum to at most 1.
C7_FragSum ==
    (Running /\ itnum >= 1) =>
      /\ Len(current_opinions) = itnum
      /\ \A r \in 0 .. itnum - 1 :
           LET total == FragNumSum(r)
           IN /\ total <= Size(edges)
              /\ r = itnum - 1 =>
                   total = Cardinality({j \in Nodes : mem_list[j] # <<>>})
      /\ \A a \in 0 .. NCODES - 1 :
           OpinionFrag(a, itnum - 1)[2] \in {1, Size(edges)}
\* C7 witness: a round has ended with an empty node, a liar (holding the last
\* code, 11111) and a node whose majority is a tie.
C7_Witness ==
    /\ itnum >= 1 /\ AfterRound(itnum)
    /\ liars # {}
    /\ \E k \in Nodes : mem_list[k] = <<>>
    /\ \E j \in Nodes : Cardinality(MostCommon(mem_dict[j])) >= 2

\* C8: once the seed loop has ended, and so in the graph returned, every node
\* (seed or grown) has at least one neighbour.
C8_NoIsolated ==
    pc \in {"grow", "returned"} => \A a \in NodesOf(edges) : RowSum(edges, a) >= 1
\* C8 witness: a graph is returned that grew from a three-node seed.
C8_Witness ==
    /\ pc = "returned"
    /\ m0 = 3 /\ T >= 1 /\ Size(edges) = m0 + T
    /\ \E a \in NodesOf(edges) : RowSum(edges, a) = 1

\* C9: every entry of the returned eta lies in [0,1].
C9_InUnitInterval ==
    pc = "returned" =>
      \A a, b \in NodesOf(edges) :
         /\ RatLeq(RatZero, eta[a][b])
         /\ RatLeq(eta[a][b], RatOne)

\* C10: eta[i][j] is non-zero exactly where edges[i][j] = 1.
C10_OnlyOnEdges ==
    pc = "returned" =>
      \A a, b \in NodesOf(edges) : (eta[a][b][1] # 0) <=> (edges[a][b] = 1)

\* the parameters are out of the range the callers are held to
InvalidGen == pc \in {"seed", "grow", "grow_error", "returned"} /\ m >= m0
InvalidRun ==
    /\ pc \in {"setup", "liars_seeded", "truths_seeded", "setup_error", "broadcast", "done"}
    /\ (L < 1 \/ liarnum + truthnum + 1 > Size(edges))
\* C11: a call with attach count >= seed size, with liarnum + truthnum + 1
\* above the node count, or with L < 1 does no work: no seed graph is drawn
\* and nothing is returned, no memory is seeded, no round is run and no
\* statistics are produced.
C11_FailFast ==
    /\ InvalidGen => (edges = <<>> /\ pc # "returned")
    /\ InvalidRun =>
         /\ \A j \in Nodes : mem_list[j] = <<>>
         /\ pc \notin {"broadcast", "done"}
         /\ itnum = 0 /\ avgH = <<>>

\* the state in which the loop over the nodes has ended and the insertions of
\* lines 261-269 are about to be made
Inserting == pc = "broadcast" /\ node_i = Size(edges)
\* C12: FIFO eviction. Taking the insertions of a round one by one, an
\* insertion that makes the list longer than L removes exactly the head of the
\* list and nothing else, the other entries keeping their order, and the
\* Counter is again the multiset of the list (the evicted code's count is one
\* less, its key gone when that was its last instance); an insertion that does
\* not overflow removes nothing. So after all of them the list is the last L
\* entries of (old list followed by the round's updates), in that order.
C12_FifoEviction ==
    [][Inserting =>
         \A j \in Nodes :
            LET ups == updates[j]
                all == mem_list[j] \o ups
                drop == IF Len(all) > L THEN Len(all) - L ELSE 0
            IN /\ mem_list'[j] = SubSeq(all, drop + 1, Len(all))
               /\ mem_dict'[j] = CounterOfList(mem_list'[j])
               /\ \A k \in 1 .. Len(ups) :
                    LET before == InsertAll(mem_dict[j], mem_list[j], SubSeq(ups, 1, k - 1), L)
                        after == InsertAll(mem_dict[j], mem_list[j], SubSeq(ups, 1, k), L)
                        grown == Append(before.l, ups[k])
                    IN IF Len(grown) > L
                       THEN /\ after.l = Tail(grown)
                            /\ after.d = CounterOfList(Tail(grown))
                            /\ (\A x \in 1 .. Len(after.l) : after.l[x] # Head(grown))
                                  => Head(grown) \notin DOMAIN after.d
                       ELSE /\ after.l = grown
                            /\ after.d = CounterOfList(grown)]_vars
\* C12 witness: a one-round run has ended in which a node of capacity 2 that
\* was empty had three pairwise different codes inserted and holds the last
\* two, in insertion order.
C12_Witness ==
    /\ pc = "done" /\ itnum = 1 /\ L = 2
    /\ \E j \in Nodes :
         /\ total_in[j] = 3 /\ Len(updates[j]) = 3
         /\ Cardinality({updates[j][k] : k \in 1 .. 3}) = 3
         /\ mem_list[j] = <<updates[j][2], updates[j][3]>>
         /\ updates[j][1] \notin DOMAIN mem_dict[j]

\* the number of positions in which two rumors differ
Hamming(a, b) == Cardinality({k \in 1 .. NBITS : a[k] # b[k]})
\* C13: the belief drift step. When the mutation draw of ordinary node i is
\* true, the new code differs in exactly one bit from a code r that i held;
\* in i's list the oldest instance of r, and only it, becomes the new code, at
\* the same position, the length and all other entries staying as they were,
\* and i's Counter follows; no other node's memory changes; and what is queued
\* in this turn is the new code, for neighbours of i only.
C13_MutationStep ==
    [][(InLoop /\ mutations' # mutations) =>
         /\ node_i \notin Special
         /\ \E r \in DOMAIN mem_dict[node_i] :
              /\ Hamming(r, rumor') = 1
              /\ \E p \in 1 .. Len(mem_list[node_i]) :
                   /\ mem_list[node_i][p] = r
                   /\ \A q \in 1 .. p - 1 : mem_list[node_i][q] # r
                   /\ Len(mem_list'[node_i]) = Len(mem_list[node_i])
                   /\ mem_list'[node_i][p] = rumor'
                   /\ \A q \in 1 .. Len(mem_list[node_i]) :
                        q # p => mem_list'[node_i][q] = mem_list[node_i][q]
         /\ mem_dict'[node_i] = CounterOfList(mem_list'[node_i])
         /\ \A j \in Nodes \ {node_i} :
              mem_list'[j] = mem_list[j] /\ mem_dict'[j] = mem_dict[j]
         /\ \A j \in Nodes :
              /\ updates'[j] \in {updates[j], Append(updates[j], rumor')}
              /\ j \notin Flatnonzero(edges, node_i) => updates'[j] = updates[j]]_vars
\* C13 witness: a node that began the round holding the same code twice has
\* mutated: the older instance carries the new code, the newer one the old
\* code, and the new code has been queued for a neighbour.
C13_Witness ==
    /\ pc = "broadcast" /\ node_i >= 1 /\ mutations = 1
    /\ LET i == node_i - 1
       IN /\ Len(start_list[i]) = 2
          /\ start_list[i][1] = start_list[i][2]
          /\ mem_list[i] = <<rumor, start_list[i][2]>>
          /\ Hamming(rumor, start_list[i][1]) = 1
          /\ \E j \in Flatnonzero(edges, i) :
               updates[j] # <<>> /\ Last(updates[j]) = rumor

\* C14: the two modes differ only in the selection. In the turn of an ordinary
\* node with non-empty memory, whatever mcr is, its entropy slot becomes the
\* entropy of its memory (no other slot changes) and the selected rumor r is a
\* code it holds with count >= 1, a most common one when mcr is true; then
\* either the mutation draw is false, r is the rumor told and no memory changes,
\* or it is true, the rumor told differs from r in one bit and one count moves
\* from r to it.
C14_ModesShareDrift ==
    [][(InLoop /\ node_i \notin Special /\ mem_list[node_i] # <<>>) =>
         /\ H'[node_i] = Entropy(mem_dict[node_i])
         /\ \A j \in Nodes \ {node_i} : H'[j] = H[j]
         /\ \E r \in DOMAIN mem_dict[node_i] :
              /\ mem_dict[node_i][r] >= 1
              /\ mcr => \A k \in DOMAIN mem_dict[node_i] :
                          mem_dict[node_i][k] <= mem_dict[node_i][r]
              /\ \/ /\ mutations' = mutations
                    /\ rumor' = r
                    /\ mem_list' = mem_list /\ mem_dict' = mem_dict
                 \/ /\ mutations' = mutations + 1
                    /\ Hamming(r, rumor') = 1
                    /\ mem_dict'[node_i] = CDec(CInc(mem_dict[node_i], rumor'), r)
                    /\ Len(mem_list'[node_i]) = Len(mem_list[node_i])]_vars
\* C14 witness: in weighted mode a node of positive entropy has selected a code
\* that is not its most common one and has mutated it.
C14_Witness ==
    /\ pc = "broadcast" /\ node_i >= 1 /\ ~mcr /\ mutations = 1
    /\ LET i == node_i - 1
           had == CounterOfList(start_list[i])
       IN /\ i \notin Special
          /\ H[i] > 0
          /\ mem_list[i] # start_list[i]
          /\ \E r \in DOMAIN had :
               /\ Hamming(r, rumor) = 1
               /\ r \notin MostCommon(had)
               /\ mem_dict[i] = CDec(CInc(had, rumor), r)

\* the number of edges: half of the sum of all entries
EdgeCount(e) == SumH([a \in NodesOf(e) |-> RowSum(e, a)], NodesOf(e)) \div 2
\* C15: growth keeps the adjacency well-formed. Every matrix the generator
\* holds after a seed draw is symmetric with a zero diagonal and 0/1 entries,
\* and has m0 + t nodes once the seed is accepted; a growth step adds exactly
\* one node, the new node has exactly m neighbours, all of them old nodes, the
\* number of edges grows by exactly m, and no entry between old nodes changes.
C15_WellFormedGrowth ==
    /\ []((pc \in {"seed", "grow", "returned"} /\ edges # <<>>) =>
            /\ NodesOf(edges) = 0 .. Size(edges) - 1
            /\ \A a, b \in NodesOf(edges) :
                 /\ edges[a][b] \in {0, 1}
                 /\ edges[a][b] = edges[b][a]
                 /\ a = b => edges[a][b] = 0
            /\ pc # "seed" => Size(edges) = m0 + t)
    /\ [][(pc = "grow" /\ t' = t + 1) =>
            LET n == Size(edges)
            IN /\ Size(edges') = n + 1
               /\ \A a, b \in NodesOf(edges) : edges'[a][b] = edges[a][b]
               /\ Cardinality(Flatnonzero(edges', n)) = m
               /\ RowSum(edges', n) = m
               /\ Flatnonzero(edges', n) \subseteq NodesOf(edges)
               /\ \A a \in NodesOf(edges) : edges'[a][n] = edges'[n][a]
               /\ EdgeCount(edges') = EdgeCount(edges) + m]_vars
\* C15 witness: a graph is returned after two growth steps that attached each
\* new node to two old ones.
C15_Witness ==
    /\ pc = "returned" /\ m = 2 /\ m0 = 3 /\ T = 2 /\ t = 2
    /\ Size(edges) = 5
    /\ EdgeCount(edges) >= 6
    /\ RowSum(edges, 4) = 2 /\ edges[4][3] = 1

\* C16: same-round insertions into a node are made in ascending order of the
\* broadcaster. The nodes take their turns in ascending order; in its turn a
\* broadcaster adds at most one entry, the rumor it tells, at the END of a
\* neighbour's update list, so the list holds at most one entry per neighbour
\* that has had its turn, in the order of their ids; and the insertions are
\* made in list order: what a node holds afterwards is its old list followed
\* by the update list, cut at the front to the last L entries, so the code of
\* a lower broadcaster is evicted no later than the code of a higher one.
C16_AscendingInsertion ==
    /\ [](pc = "broadcast" =>
            \A j \in Nodes :
               Len(updates[j]) <= Cardinality({b \in Flatnonzero(edges, j) : b < node_i}))
    /\ [][InLoop =>
            /\ node_i' = node_i + 1
            /\ \A j \in Nodes :
                 \/ updates'[j] = updates[j]
                 \/ /\ j \in Flatnonzero(edges, node_i)
                    /\ updates'[j] = Append(updates[j], rumor')]_vars
    /\ [][Inserting =>
            \A j \in Nodes :
               \E cut \in 0 .. Len(mem_list[j]) + Len(updates[j]) :
                  /\ mem_list'[j] = SubSeq(mem_list[j] \o updates[j], cut + 1,
                                           Len(mem_list[j]) + Len(updates[j]))
                  /\ Len(mem_list[j]) + Len(updates[j]) <= L => cut = 0]_vars
\* C16 witness: a one-round run without mutation has ended in which a node of
\* capacity 1 accepted 00000 from a lower neighbour and 11111 from a higher
\* one (the liar): the updates were queued in that order and the node holds
\* 11111, the lower broadcaster's code having been evicted.
C16_Witness ==
    /\ pc = "done" /\ itnum = 1 /\ L = 1 /\ mutations = 0
    /\ \E j \in Nodes : \E b \in Flatnonzero(edges, j) \cap liars :
         LET zs == Flatnonzero(edges, j) \cap (truths \cup {init_person})
         IN /\ zs # {}
            /\ \A a \in zs : a < b
            /\ updates[j] = <<ZEROS, ONES>>
            /\ mem_list[j] = <<ONES>>

\* C17: the seed loop terminates under fair draws. The loop is eventually
\* left; every pass draws a whole new m0 x m0 graph and either stays in the loop
\* (some node of the draw has no neighbour) or leaves it for the growth phase
\* (every node of the draw has a neighbour), never anything else; so the loop
\* is left only with a seed graph of minimum degree >= 1.
C17_SeedLoopExits ==
    /\ <>(pc # "seed")
    /\ [][pc = "seed" =>
            /\ NodesOf(edges') = 0 .. m0 - 1
            /\ pc' \in {"seed", "grow"}
            /\ pc' = "seed" <=> (\E a \in NodesOf(edges') : RowSum(edges', a) = 0)]_vars
    /\ []((pc = "grow" /\ t = 0) =>
            /\ Size(edges) = m0
            /\ \A a \in NodesOf(edges) : RowSum(edges, a) >= 1)
\* C17 witness: the loop has been left with a three-node seed graph that is
\* not the complete one.
C17_Witness ==
    /\ pc = "grow" /\ t = 0 /\ m0 = 3
    /\ EdgeCount(edges) = 2
    /\ \A a \in NodesOf(edges) : RowSum(edges, a) >= 1

\* C18: non-emptiness is monotone. No step of a run empties a memory that
\* holds something; an ordinary node other than the seed into which nothing was
\* ever inserted holds nothing; and the number of nodes with an opinion
\* recorded for a round is never below that of the round before.
C18_NonEmptyMonotone ==
    /\ [][Running =>
            \A j \in Nodes :
               mem_list[j] # <<>> => (mem_list'[j] # <<>> /\ mem_dict'[j] # <<>>)]_vars
    /\ [](Running =>
            /\ \A j \in Nodes \ (Special \cup {init_person}) :
                 total_in[j] = 0 => (mem_list[j] = <<>> /\ mem_dict[j] = <<>>)
            /\ \A r \in 1 .. Len(current_opinions) - 1 :
                 Totrum(current_opinions[r]) <= Totrum(current_opinions[r + 1]))
\* C18 witness: after two rounds with capacity 1, a node has lost an entry to
\* eviction, a mutated code is held, a node that never accepted anything is
\* still empty, and more nodes had an opinion in round two than in round one.
C18_Witness ==
    /\ pc = "done" /\ itnum = 2 /\ L = 1 /\ mutations = 1
    /\ \E j \in Nodes : total_in[j] > 1 /\ Len(mem_list[j]) = 1
    /\ \E j \in Nodes : mem_list[j] # <<>> /\ Weight(mem_list[j][1]) \in {1, 4}
    /\ \E k \in Nodes : total_in[k] = 0 /\ mem_list[k] = <<>>
    /\ Totrum(current_opinions[1]) < Totrum(current_opinions[2])

\* C19: no Counter holds a key of count zero or less. In every state of a run
\* every key of every mem_dict[j] has a count between 1 and the total, so each
\* val/totrum of line 238 is in (0,1]; the entropy of a non-empty memory is
\* never negative and is exactly 0 when it holds a single distinct code; and
\* the entropy slots are never negative.
C19_PositiveCounts ==
    Running =>
      \A j \in Nodes :
         /\ \A k \in DOMAIN mem_dict[j] :
              mem_dict[j][k] >= 1 /\ mem_dict[j][k] <= Totrum(mem_dict[j])
         /\ mem_dict[j] # <<>> =>
              /\ Entropy(mem_dict[j]) >= 0
              /\ Cardinality(DOMAIN mem_dict[j]) = 1 => Entropy(mem_dict[j]) = 0
              /\ Cardinality(DOMAIN mem_dict[j]) > 1 => Entropy(mem_dict[j]) > 0
         /\ H[j] >= 0
\* C19 witness: the seed's only 00000 has been mutated away, so that key is
\* gone from its Counter; a node has lost an entry to eviction; an ordinary
\* node holding a single distinct code has entropy slot 0 and another node's
\* slot is positive.
C19_Witness ==
    /\ Running /\ itnum >= 1 /\ mutations = 1
    /\ mem_list[init_person] # <<>>
    /\ ZEROS \notin DOMAIN mem_dict[init_person]
    /\ \E j \in Nodes : total_in[j] > L
    /\ \E j \in Nodes : H[j] > 0
    /\ \E j \in Nodes \ Special :
         Cardinality(DOMAIN mem_dict[j]) = 1 /\ H[j] = 0 /\ (itnum = 2 \/ j < node_i)

====
